---------------------------- MODULE Spec2Model ----------------------------
(***************************************************************************)
(* A model of pims' readers.                                               *)
(*                                                                         *)
(* The Bio-Formats readers (src/pims/bioformats.py): BioformatsReaderRaw   *)
(* and BioformatsReader, under the specification Spec and, with plane      *)
(* reads that fail, SpecReadFails.  The Python object is the               *)
(* record `self`; the Java reader it drives is the record `rdr`.  What the *)
(* Java reader reports for a series (its sizes, whether it is RGB, its     *)
(* pixel type) is input of the environment, drawn when rdr.setSeries is    *)
(* called on another series than the current one.  Pixel data is           *)
(* abstracted to the identity of the plane it was read from.               *)
(*                                                                         *)
(* The constructor's defaults are assumed for process_func (identity),     *)
(* dtype (None) and as_grey (False).  Spec opens a file that exists, with  *)
(* loci_tools.jar in place; the start of the constructor (the file check,  *)
(* the download of the jar, the start of the JVM) is the subject of        *)
(* SpecJVM, over the variable `process`.                                   *)
(*                                                                         *)
(* The image sequences (src/pims/image_sequence.py) are the subject of     *)
(* SpecSeq (BaseImageSequence), SpecND and SpecND2D (ImageSequenceND) and  *)
(* SpecIndices (filename_to_indices), the ZVI reader                       *)
(* (src/pims/zvi_reader.py) of SpecZVI, MetadataRetrieve                   *)
(* (src/pims/bioformats.py) of SpecMetadata.  Each specification leaves    *)
(* the variables of the others at their initial values.                    *)
(***************************************************************************)
EXTENDS Integers, Sequences, FiniteSets, TLC

VARIABLES
    opened,     \* a reader object exists (its construction returned)
    self,       \* the attributes of the BioformatsReader object
    rdr,        \* the Java reader: series count, current series, its report
    call,       \* the last operation called
    raised,     \* the exception the last operation raised, or "none"
    frame,      \* the Frame the last get_frame returned, NoFrame otherwise
    reads,      \* the plane indices the last get_frame read, in order
    process,    \* the Python process: the JVM, loci_tools.jar, constructions
    imseq,      \* an image sequence object, its files and its last call
    parse,      \* an application of filename_to_indices
    zvi,        \* a ZVI object, its file and its last call
    retrieve    \* a MetadataRetrieve object, the Java store and its last call

vars == <<opened, self, rdr, call, raised, frame, reads, process, imseq,
          parse, zvi, retrieve>>

(* The variables of the Bio-Formats reader, and the others. *)
bioformats_vars == <<opened, self, rdr, call, raised, frame, reads>>
other_vars == <<process, imseq, parse, zvi, retrieve>>

---------------------------------------------------------------------------
(* Bounds of the model. *)

MaxSeries == 2      \* a file holds MaxSeries series
MaxT == 2           \* a series has 1 or MaxT time points
MaxZ == 5           \* a series has 1 or MaxZ focal planes
MaxC == 2           \* a non-RGB series has 1 or MaxC channels
MaxY == 2           \* an image has 1 or MaxY rows
MaxX == 2           \* an image has 1 or MaxX columns
MaxSel == 2         \* a channel selection lists at most MaxSel channels

(* Samples per pixel of an RGB series (frame_shape is (y, x, 3)). *)
RGBCount == 3

---------------------------------------------------------------------------
(* Python values of the channel attribute: None, an int, or a tuple. *)

PyNone == [kind |-> "None", items |-> <<>>]
PyInt(n) == [kind |-> "int", items |-> <<n>>]
PyTuple(t) == [kind |-> "tuple", items |-> t]

(* The tuples over S of length at most n. *)
SeqsUpTo(S, n) == UNION {[1..k -> S] : k \in 0..n}

(* range(n) as a tuple: (0, 1, ..., n-1). *)
Range(n) == [i \in 1..n |-> i - 1]

(* The values a caller assigns to `channel`: ints and iterables of ints,   *)
(* in and out of range: one index below the range, the first and the last  *)
(* channel of the widest series, and one beyond.                           *)
ChannelIndices == {-1, 0, MaxC - 1, MaxC}
ChannelInputs ==
    {PyInt(n) : n \in ChannelIndices}
        \cup {PyTuple(t) : t \in SeqsUpTo(ChannelIndices, MaxSel)}

(* The values a caller passes as a series index. *)
SeriesInputs == -1..MaxSeries

---------------------------------------------------------------------------
(* What the Java reader reports for one series. *)

(* Every axis is either degenerate (size 1) or of its largest size.  C is  *)
(* the number of channel planes per (z, t), which getIndex counts with: it *)
(* is getSizeC() on a non-RGB series and 1 on an RGB series, whose samples *)
(* share one plane.  An RGB series holds 8-bit samples, a non-RGB series   *)
(* 16-bit big-endian samples.                                              *)
Descs ==
    [rgb : {FALSE}, sizeRGB : {1}, T : {1, MaxT}, Z : {1, MaxZ},
     C : {1, MaxC}, Y : {1, MaxY}, X : {1, MaxX}, dtype : {">u2"}]
    \cup
    [rgb : {TRUE}, sizeRGB : {RGBCount}, T : {1, MaxT}, Z : {1, MaxZ},
     C : {1}, Y : {1, MaxY}, X : {1, MaxX}, dtype : {"<u1"}]

NoDesc ==
    [rgb |-> FALSE, sizeRGB |-> 0, T |-> 0, Z |-> 0, C |-> 0, Y |-> 0,
     X |-> 0, dtype |-> "None"]

NoRdr == [count |-> 0, series |-> -1, desc |-> NoDesc]

NoSelf ==
    [series |-> -1, size_series |-> 0, isRGB |-> FALSE, sizeRGB |-> 0,
     sizeT |-> 0, sizeZ |-> 0, sizeY |-> 0, sizeX |-> 0, sizeC |-> 0,
     first_frame_shape |-> <<>>, pixel_type |-> "None", channel |-> PyNone,
     channel_RGB_all |-> <<>>]

NoArray == [shape |-> <<>>, planes |-> <<>>]
NoFrame ==
    [array |-> NoArray, frame_no |-> -1, metadata |-> [frame |-> PyNone, series |-> PyNone],
     colors |-> PyNone]

---------------------------------------------------------------------------
(* A _change_series that keeps the T size it had. *)
Raw_change_series_keeping_T(s, d) ==
    [s EXCEPT !.isRGB = d.rgb,
              !.sizeRGB = d.sizeRGB,
              !.sizeZ = d.Z,
              !.sizeY = d.Y,
              !.sizeX = d.X,
              !.sizeC = IF d.rgb THEN 1 ELSE d.C,
              !.first_frame_shape =
                  IF d.rgb THEN <<d.Y, d.X, d.sizeRGB>> ELSE <<d.Y, d.X>>,
              !.pixel_type = d.dtype]

(* BioformatsReaderRaw._change_series: reread sizes and pixel type from    *)
(* the Java reader, whose current series reports d.                        *)
Raw_change_series(s, d) ==
    [s EXCEPT !.isRGB = d.rgb,
              !.sizeRGB = d.sizeRGB,
              !.sizeT = d.T,
              !.sizeZ = d.Z,
              !.sizeY = d.Y,
              !.sizeX = d.X,
              !.sizeC = IF d.rgb THEN 1 ELSE d.C,
              !.first_frame_shape =
                  IF d.rgb THEN <<d.Y, d.X, d.sizeRGB>> ELSE <<d.Y, d.X>>,
              !.pixel_type = d.dtype]

(* A channel setter that accepts the index sizeC. *)
channel_setter_off_by_one(s, value) ==
    IF s.isRGB
    THEN [self |-> s, raised |-> "AttributeError"]
    ELSE LET channel == value.items
         IN  IF (\E i \in 1..Len(channel) : channel[i] > s.sizeC)
                \/ (\E i \in 1..Len(channel) : channel[i] < 0)
             THEN [self |-> s, raised |-> "IndexError"]
             ELSE [self |-> [s EXCEPT !.channel = PyTuple(channel)],
                   raised |-> "none"]

(* The channel setter: [self, raised]. *)
channel_setter(s, value) ==
    IF s.isRGB
    THEN [self |-> s, raised |-> "AttributeError"]
    ELSE LET channel == value.items    \* tuple(value), or (value,) for an int
         IN  IF (\E i \in 1..Len(channel) : channel[i] >= s.sizeC)
                \/ (\E i \in 1..Len(channel) : channel[i] < 0)
             THEN [self |-> s, raised |-> "IndexError"]
             ELSE [self |-> [s EXCEPT !.channel = PyTuple(channel)],
                   raised |-> "none"]

(* A _change_series that keeps a given selection without validating it. *)
change_series_keeping_channel(s, d) ==
    LET s1 == Raw_change_series(s, d)
    IN  IF s1.isRGB
        THEN [self |-> [s1 EXCEPT !.channel = PyTuple(<<0>>)],
              raised |-> "AttributeError"]
        ELSE IF s1.channel = PyNone
        THEN channel_setter(s1, PyTuple(Range(s1.sizeC)))
        ELSE [self |-> [s1 EXCEPT !.channel = PyTuple(s1.channel.items)],
              raised |-> "none"]

(* BioformatsReader._change_series: [self, raised].  channel_RGB is a      *)
(* property without a setter, so the assignment `self.channel_RGB = []`    *)
(* raises AttributeError after _channel was set.                           *)
change_series(s, d) ==
    LET s1 == Raw_change_series(s, d)
    IN  IF s1.isRGB
        THEN [self |-> [s1 EXCEPT !.channel = PyTuple(<<0>>)],
              raised |-> "AttributeError"]
        ELSE IF s1.channel = PyNone
        THEN channel_setter(s1, PyTuple(Range(s1.sizeC)))
        ELSE LET r == channel_setter(s1, s1.channel)
             IN  IF r.raised = "IndexError"
                 THEN channel_setter(s1, PyTuple(Range(s1.sizeC)))
                 ELSE r

(* A series setter that accepts the index size_series. *)
series_setter_off_by_one(s, r, value, d) ==
    IF value > s.size_series \/ value < 0
    THEN [self |-> s, rdr |-> r, raised |-> "IndexError"]
    ELSE IF value # s.series
    THEN LET res == change_series([s EXCEPT !.series = value], d)
         IN  [self |-> res.self,
              rdr |-> [r EXCEPT !.series = value, !.desc = d],
              raised |-> res.raised]
    ELSE [self |-> s, rdr |-> r, raised |-> "none"]

(* The series setter: [self, rdr, raised].  d is what the Java reader      *)
(* reports once setSeries(value) was called.                               *)
series_setter(s, r, value, d) ==
    IF value >= s.size_series \/ value < 0
    THEN [self |-> s, rdr |-> r, raised |-> "IndexError"]
    ELSE IF value # s.series
    THEN LET res == change_series([s EXCEPT !.series = value], d)
         IN  [self |-> res.self,
              rdr |-> [r EXCEPT !.series = value, !.desc = d],
              raised |-> res.raised]
    ELSE [self |-> s, rdr |-> r, raised |-> "none"]

(* BioformatsReader.__init__ on a file of n series: [opened, self, rdr,    *)
(* raised].  colors tells whether the metadata holds channel colours.      *)
init(n, series, C, d, colors) ==
    IF series >= n \/ series < 0
    THEN [opened |-> FALSE, self |-> NoSelf,
          rdr |-> [NoRdr EXCEPT !.count = n], raised |-> "IndexError"]
    ELSE LET s0 == [NoSelf EXCEPT !.channel = C, !.size_series = n,
                                  !.series = series]
             r == [count |-> n, series |-> series, desc |-> d]
             res == change_series(s0, d)
         IN  IF res.raised # "none"
             THEN [opened |-> FALSE, self |-> NoSelf, rdr |-> r,
                   raised |-> res.raised]
             ELSE [opened |-> TRUE,
                   self |-> [res.self EXCEPT !.channel_RGB_all =
                                IF colors THEN Range(res.self.sizeC) ELSE <<>>],
                   rdr |-> r, raised |-> "none"]

(* __len__, sizes and frame_shape. *)
len(s) == s.sizeT

sizes(s) ==
    [series |-> s.size_series, X |-> s.sizeX, Y |-> s.sizeY, Z |-> s.sizeZ,
     C |-> s.sizeC, T |-> s.sizeT]

frame_shape(s) == s.first_frame_shape

---------------------------------------------------------------------------
(* Reading a frame. *)

(* rdr.getIndex(z, c, t): the plane index of a coordinate, planes ordered  *)
(* with z fastest, then c, then t (Bio-Formats' XYZCT).                    *)
get_index(r, z, c, t) == z + r.desc.Z * (c + r.desc.C * t)

(* BioformatsReaderRaw._get_frame(series, j) with series the active one:   *)
(* the image of plane j and its metadata dict.                             *)
Raw_get_frame(s, r, series, j) ==
    [im |-> [shape |-> IF s.isRGB THEN <<s.sizeY, s.sizeX, s.sizeRGB>>
                       ELSE <<s.sizeY, s.sizeX>>,
             plane |-> <<r.series, j>>],
     metadata |-> [frame |-> j, series |-> series]]

(* np.zeros: a plane that was never written. *)
ZeroPlane == <<-1, -1>>

(* The loops of get_frame: the sequence of their iterations, each with    *)
(* its position [Nc, z] in the array, the index it read and what           *)
(* _get_frame returned for it.                                             *)
RECURSIVE z_loop(_, _, _, _, _, _, _)
z_loop(s, r, t, Nc, c, z, done) ==
    IF z >= s.sizeZ THEN done
    ELSE LET index == get_index(r, z, c, t)
             got == Raw_get_frame(s, r, s.series, index)
         IN  z_loop(s, r, t, Nc, c, z + 1,
                    Append(done, [Nc |-> Nc, z |-> z, index |-> index,
                                  im |-> got.im, md |-> got.metadata]))

RECURSIVE c_loop(_, _, _, _, _)
c_loop(s, r, t, Nc, done) ==
    IF Nc >= Len(s.channel.items) THEN done
    ELSE c_loop(s, r, t, Nc + 1,
                z_loop(s, r, t, Nc, s.channel.items[Nc + 1], 0, done))

(* imlist after the loops: the (channel, Z) grid of planes laid out row by *)
(* row, each cell holding what the last iteration assigned to it.          *)
imlist_of(s, iters) ==
    [k \in 1..(Len(s.channel.items) * s.sizeZ) |->
        LET hits == {i \in 1..Len(iters) :
                        iters[i].Nc * s.sizeZ + iters[i].z + 1 = k}
        IN  IF hits = {} THEN ZeroPlane
            ELSE iters[CHOOSE i \in hits : \A h \in hits : h <= i].im.plane]

(* The folding of one metadata key: the value itself when the list equals  *)
(* itself shifted by one, the list otherwise.                              *)
PyList(l) == [kind |-> "list", items |-> l]

(* A folding that never collapses equal values. *)
fold_never_collapsing(values) == PyList(values)

fold(values) ==
    IF Tail(values) = SubSeq(values, 1, Len(values) - 1)
    THEN PyInt(values[1])
    ELSE PyList(values)

(* The channel_RGB property: [raised, value].  It reads the channel        *)
(* property, which raises on an RGB series.                                *)
channel_RGB(s) ==
    IF Len(s.channel_RGB_all) = s.sizeC
    THEN IF s.isRGB
         THEN [raised |-> "AttributeError", value |-> PyNone]
         ELSE [raised |-> "none",
               value |-> PyList([i \in 1..Len(s.channel.items) |->
                            s.channel_RGB_all[s.channel.items[i] + 1]])]
    ELSE [raised |-> "none", value |-> PyNone]

(* ndarray.squeeze(): every axis of length 1 is removed. *)
squeeze(a) == [a EXCEPT !.shape = SelectSeq(a.shape, LAMBDA n : n # 1)]

(* The end of get_frame, from the loops' iterations: fold the metadata,   *)
(* add the colours, squeeze.                                               *)
get_frame_result(s, t, shape, iters) ==
    LET mdlist == [i \in 1..Len(iters) |-> iters[i].md]
        rd == [i \in 1..Len(iters) |-> iters[i].index]
    IN  IF Len(mdlist) = 0
        THEN [raised |-> "IndexError", frame |-> NoFrame, reads |-> rd]
        ELSE LET metadata ==
                     [k \in DOMAIN mdlist[1] |->
                         fold([i \in 1..Len(mdlist) |-> mdlist[i][k]])]
                 col == channel_RGB(s)
             IN  IF col.raised # "none"
                 THEN [raised |-> col.raised, frame |-> NoFrame, reads |-> rd]
                 ELSE [raised |-> "none",
                       frame |-> [array |-> squeeze([shape |-> shape,
                                      planes |-> imlist_of(s, iters)]),
                                  frame_no |-> t,
                                  metadata |-> metadata,
                                  colors |-> col.value],
                       reads |-> rd]

(* BioformatsReader.get_frame(t): [raised, frame, reads]. *)
get_frame(s, r, t) ==
    LET ch == s.channel.items
        shape == <<Len(ch), s.sizeZ, s.sizeY, s.sizeX>>
                     \o (IF s.isRGB THEN <<s.sizeRGB>> ELSE <<>>)
    IN  get_frame_result(s, t, shape, c_loop(s, r, t, 0, <<>>))

---------------------------------------------------------------------------
(* The initial values of the variables of the other readers. *)

NoProcess ==
    [jar |-> TRUE, jvm |-> "off", xmx |-> "none", starts |-> 0,
     constructions |-> 0, filename_exists |-> FALSE, java_memory |-> "none",
     log |-> <<>>, raised |-> "none"]
NoSeqFrame == [file |-> <<>>, frame_no |-> -1]
NoSeq ==
    [state |-> "none", path_spec |-> [form |-> "none", names |-> <<>>],
     is_zipfile |-> FALSE, filepaths |-> <<>>, count |-> 0,
     toc |-> <<>>, axes |-> <<>>, sizes |-> <<>>,
     iter_axes |-> <<>>, bundle_axes |-> <<>>, dim_identifiers |-> <<>>,
     ind |-> {},
     call |-> "none", raised |-> "none", frame |-> NoSeqFrame,
     reads |-> <<>>]
NoParse ==
    [state |-> "none", filename |-> <<>>, identifiers |-> <<>>,
     result |-> <<>>]
NoZVIFrame == [item |-> -1, frame_no |-> -1]
NoZVI ==
    [state |-> "none", file |-> [items |-> 0, extras |-> {}],
     streams |-> <<>>, toc |-> <<>>, len |-> 0,
     call |-> "none", j |-> -1, raised |-> "none", frame |-> NoZVIFrame]

(* The names dir(md) lists, in its order: two getters of the metadata, the *)
(* two getters MetadataRetrieve leaves out, and a method that is no getter.*)
getA == <<"g", "e", "t", "A">>
getB == <<"g", "e", "t", "B">>
getClass == <<"g", "e", "t", "C", "l", "a", "s", "s">>
getRoot == <<"g", "e", "t", "R", "o", "o", "t">>
toString == <<"t", "o", "S", "t", "r", "i", "n", "g">>
DirNames == <<getA, getB, getClass, getRoot, toString>>
NameSet == {DirNames[k] : k \in 1..Len(DirNames)}

ParamCounts == 5    \* range(5): a getter is tried with 0 .. 4 zeros

(* What a Java method does when called with p arguments. *)
Outcomes == {"value", "None", "raise"}

(* A method that takes no argument. *)
NoArgMethod == [p \in 0..(ParamCounts - 1) |-> IF p = 0 THEN "value" ELSE "raise"]

NoStore == [fns |-> [name \in NameSet |-> NoArgMethod], text |-> <<>>]
NoValue == [type |-> "None", text |-> <<>>, number |-> 0]
NoMetadata ==
    [state |-> "none", md |-> NoStore, bound |-> {},
     call |-> "none", attr |-> <<>>, nargs |-> 0,
     raised |-> "none", value |-> NoValue]

---------------------------------------------------------------------------
(* The state machine of the Bio-Formats reader. *)

(* No Bio-Formats reader yet; nothing else in the process. *)
NoReader ==
    /\ opened = FALSE
    /\ self = NoSelf
    /\ rdr = NoRdr
    /\ call = "none"
    /\ raised = "none"
    /\ frame = NoFrame
    /\ reads = <<>>

Init ==
    /\ NoReader
    /\ process = NoProcess
    /\ imseq = NoSeq
    /\ parse = NoParse
    /\ zvi = NoZVI
    /\ retrieve = NoMetadata

(* reader = BioformatsReader(filename, series=series, C=C), once: a failed *)
(* construction leaves no object behind.                                   *)
OpenAs(series, C, d, colors) ==
    /\ call = "none"
    /\ \E res \in {init(MaxSeries, series, C, d, colors)} :
           /\ opened' = res.opened
           /\ self' = res.self
           /\ rdr' = res.rdr
           /\ raised' = res.raised
    /\ call' = "open"
    /\ frame' = NoFrame
    /\ reads' = <<>>
    /\ UNCHANGED other_vars

Open ==
    /\ call = "none"
    /\ \E series \in SeriesInputs, C \in {PyNone} \cup ChannelInputs,
          d \in Descs, colors \in BOOLEAN : OpenAs(series, C, d, colors)

(* What the Java reader reports after setSeries(value): the same as before *)
(* for the current series, anything for another one.                       *)
Reported(value) ==
    IF value = rdr.series \/ value >= rdr.count \/ value < 0
    THEN {rdr.desc}
    ELSE Descs

(* reader.series = value *)
SetSeriesTo(value, d) ==
    /\ opened
    /\ \E res \in {series_setter(self, rdr, value, d)} :
           /\ self' = res.self
           /\ rdr' = res.rdr
           /\ raised' = res.raised
    /\ call' = "series"
    /\ frame' = NoFrame
    /\ reads' = <<>>
    /\ UNCHANGED opened
    /\ UNCHANGED other_vars

SetSeries ==
    /\ opened
    /\ \E value \in SeriesInputs :
          \E d \in Reported(value) : SetSeriesTo(value, d)

(* reader.channel = value *)
SetChannelTo(value) ==
    /\ opened
    /\ \E res \in {channel_setter(self, value)} :
           /\ self' = res.self
           /\ raised' = res.raised
    /\ call' = "channel"
    /\ frame' = NoFrame
    /\ reads' = <<>>
    /\ UNCHANGED <<opened, rdr>>
    /\ UNCHANGED other_vars

SetChannel == opened /\ \E value \in ChannelInputs : SetChannelTo(value)

(* reader.get_frame(t) for a valid t *)
GetFrameAt(t) ==
    /\ opened
    /\ \E res \in {get_frame(self, rdr, t)} :
           /\ frame' = res.frame
           /\ reads' = res.reads
           /\ raised' = res.raised
    /\ call' = "get_frame"
    /\ UNCHANGED <<opened, self, rdr>>
    /\ UNCHANGED other_vars

GetFrame == opened /\ \E t \in 0..(len(self) - 1) : GetFrameAt(t)

Next == Open \/ SetSeries \/ SetChannel \/ GetFrame

Spec == Init /\ [][Next]_vars

---------------------------------------------------------------------------
(* Plane reads that fail: rdr.openBytes raises a Java exception. *)

(* A get_frame that leaves out the plane whose read fails and returns the  *)
(* planes it could read.                                                   *)
get_frame_skipping_failed_read(s, r, t, k) ==
    LET iters == c_loop(s, r, t, 0, <<>>)
        shape == <<Len(s.channel.items), s.sizeZ, s.sizeY, s.sizeX>>
                     \o (IF s.isRGB THEN <<s.sizeRGB>> ELSE <<>>)
        res == get_frame_result(s, t, shape,
                   SelectSeq(iters, LAMBDA it : it # iters[k]))
    IN  [self |-> s, rdr |-> r, raised |-> res.raised, frame |-> res.frame,
         reads |-> <<>>]

(* BioformatsReader.get_frame(t) when the read of its k-th plane fails:    *)
(* [self, rdr, raised, frame, reads].  Every _get_frame assigns the active *)
(* series to `series` before it reads; the exception of the k-th read      *)
(* leaves get_frame before anything is returned.  The reads of a call     *)
(* that failed are not recorded.                                           *)
get_frame_read_fails(s, r, t, k) ==
    LET set == series_setter(s, r, s.series, r.desc)
    IN  [self |-> set.self, rdr |-> set.rdr, raised |-> "JavaException",
         frame |-> NoFrame, reads |-> <<>>]

GetFrameReadFailsAt(t, k) ==
    /\ opened
    /\ \E res \in {get_frame_read_fails(self, rdr, t, k)} :
           /\ self' = res.self
           /\ rdr' = res.rdr
           /\ frame' = res.frame
           /\ reads' = res.reads
           /\ raised' = res.raised
    /\ call' = "get_frame"
    /\ UNCHANGED opened
    /\ UNCHANGED other_vars

GetFrameReadFails ==
    /\ opened
    /\ \E t \in 0..(len(self) - 1) :
           \E k \in 1..(Len(self.channel.items) * self.sizeZ) :
               GetFrameReadFailsAt(t, k)

NextReadFails ==
    Open \/ SetSeries \/ SetChannel \/ GetFrame \/ GetFrameReadFails

SpecReadFails == Init /\ [][NextReadFails]_vars

---------------------------------------------------------------------------
(* Claims about get_frame. *)

Returned == call = "get_frame" /\ raised = "none"

(* The (Nc, z) pairs of the active selection in the order of the loops:    *)
(* pair number k (from 1) has Nc = (k-1) \div sizeZ and z = (k-1) % sizeZ. *)
PairCount == Len(self.channel.items) * self.sizeZ
PairNc(k) == (k - 1) \div self.sizeZ
PairZ(k) == (k - 1) % self.sizeZ
PairIndex(k, t) ==
    get_index(rdr, PairZ(k), self.channel.items[PairNc(k) + 1], t)

(* The reads of get_frame: one per (c, z), channel-major and z fastest, at *)
(* get_index(z, c, t); each plane stored at [Nc, z] of the array.          *)
PlanesReadAndPlaced ==
    /\ (call = "get_frame" /\ raised # "IndexError") =>
          \E t \in 0..(len(self) - 1) :
              reads = [k \in 1..PairCount |-> PairIndex(k, t)]
    /\ Returned =>
          /\ reads = [k \in 1..PairCount |-> PairIndex(k, frame.frame_no)]
          /\ frame.array.planes =
                 [k \in 1..PairCount |->
                     <<self.series, PairIndex(k, frame.frame_no)>>]

(* C1: get_frame(t) reads exactly one plane for every (c, z) of the        *)
(* channel selection and [0, sizeZ), at index get_index(z, c, t), channel- *)
(* major and z fastest, and stores it at [Nc, z] of the output array; so   *)
(* with one selected channel and sizeZ = 5 (MaxZ) the returned array of a  *)
(* non-RGB series has shape (5, Y, X) and its slice k is the plane at      *)
(* z = k of that channel and t.                                            *)
C1_OnePlanePerChannelAndZ ==
    /\ PlanesReadAndPlaced
    /\ (Returned /\ ~self.isRGB /\ Len(self.channel.items) = 1
            /\ self.sizeZ = MaxZ) =>
          /\ frame.array.shape = <<MaxZ, self.sizeY, self.sizeX>>
          /\ \A k \in 0..(MaxZ - 1) :
                frame.array.planes[k + 1] =
                    <<self.series,
                      get_index(rdr, k, self.channel.items[1], frame.frame_no)>>

(* The per-plane values of a metadata key, in the order of the reads. *)
PlaneValues(k) ==
    IF k = "frame" THEN reads ELSE [i \in 1..Len(reads) |-> self.series]

(* C2: get_frame(t) folds the metadata of the planes it read: a key holds  *)
(* the single value when every plane reports an equal value (also when one *)
(* plane was read), and otherwise the list of the per-plane values in the  *)
(* order of the reads.                                                     *)
C2_MetadataFolded ==
    Returned =>
        \A k \in {"frame", "series"} :
            LET vals == PlaneValues(k)
            IN  frame.metadata[k] =
                    IF \A i, j \in 1..Len(vals) : vals[i] = vals[j]
                    THEN PyInt(vals[1])
                    ELSE PyList(vals)

(* A frame of several planes: the series folds to a scalar, the plane      *)
(* indices stay a list.                                                    *)
C2_Witness ==
    /\ Returned
    /\ Len(reads) >= 2
    /\ frame.metadata["series"].kind = "int"
    /\ frame.metadata["frame"].kind = "list"

(* A frame of several planes whose plane indices are all equal (the same   *)
(* channel selected twice).                                                *)
C2_WitnessEqualPlanes ==
    /\ Returned
    /\ Len(reads) >= 2
    /\ frame.metadata["frame"].kind = "int"

(* C3: the returned array keeps its Y and X dimensions whatever their      *)
(* size: its shape ends with (sizeY, sizeX), followed on an RGB series by  *)
(* the samples per pixel.                                                  *)
C3_SpatialAxesKept ==
    Returned =>
        LET shape == frame.array.shape
            tail == IF self.isRGB THEN <<self.sizeY, self.sizeX, self.sizeRGB>>
                    ELSE <<self.sizeY, self.sizeX>>
        IN  /\ Len(shape) >= Len(tail)
            /\ SubSeq(shape, Len(shape) - Len(tail) + 1, Len(shape)) = tail

---------------------------------------------------------------------------
(* Claims about the series and the channel selection. *)

(* C4: whatever series switches came before, len(reader) is the T size of  *)
(* the series that is active in the Java reader, and `sizes` reports the   *)
(* number of series of the file and the X, Y, Z, C and T sizes of that     *)
(* active series, never those of a series that was active before.          *)
C4_SizesOfActiveSeries ==
    opened =>
        /\ rdr.series = self.series
        /\ len(self) = rdr.desc.T
        /\ sizes(self) =
               [series |-> rdr.count, X |-> rdr.desc.X, Y |-> rdr.desc.Y,
                Z |-> rdr.desc.Z, C |-> rdr.desc.C, T |-> rdr.desc.T]

(* A switch that succeeded, to a non-RGB series of another channel count   *)
(* than the series the reader was opened on (whose channel colours fill    *)
(* channel_RGB_all).                                                       *)
C4_Witness ==
    /\ opened
    /\ call = "series"
    /\ raised = "none"
    /\ ~self.isRGB
    /\ Len(self.channel_RGB_all) = MaxC
    /\ self.sizeC = 1
    /\ self.series # 0

OutOfRange(value, n) == value < 0 \/ value >= n

(* C5: a series index below 0 or not below the number of series is         *)
(* rejected with IndexError at construction (no reader results) and by the *)
(* series setter, which then leaves the reader (active series, sizes,      *)
(* pixel type, channel selection) and the Java reader as they were; the    *)
(* active series is always a series of the file.  (No step of such a call  *)
(* ends otherwise.)                                                        *)
C5_SeriesOutOfRangeRejected ==
    /\ opened => ~OutOfRange(self.series, self.size_series)
    /\ call = "none" =>
           \A series \in SeriesInputs :
               OutOfRange(series, MaxSeries) =>
                   ~ENABLED (/\ \E C \in {PyNone} \cup ChannelInputs,
                                  d \in Descs, colors \in BOOLEAN :
                                    OpenAs(series, C, d, colors)
                             /\ ~(raised' = "IndexError" /\ ~opened'))
    /\ opened =>
           \A value \in SeriesInputs :
               OutOfRange(value, self.size_series) =>
                   /\ ENABLED (\E d \in Reported(value) : SetSeriesTo(value, d))
                   /\ ~ENABLED (/\ \E d \in Reported(value) :
                                    SetSeriesTo(value, d)
                                /\ ~(/\ raised' = "IndexError"
                                     /\ self' = self
                                     /\ rdr' = rdr))

(* The series setter rejected an index after the reader had switched to    *)
(* the last series of the file.                                            *)
C5_Witness ==
    /\ opened
    /\ call = "series"
    /\ raised = "IndexError"
    /\ self.series = MaxSeries - 1
    /\ rdr.series = MaxSeries - 1

(* Every index of the selection is a channel of a series of n channels. *)
ValidSelection(selection, n) ==
    \A i \in 1..Len(selection) : 0 <= selection[i] /\ selection[i] < n

(* C6: on a non-RGB series the channel setter accepts a value, an int      *)
(* counting as a selection of one, exactly when every index c of it        *)
(* satisfies 0 <= c < sizeC of the active series, and the selection then   *)
(* is the tuple of the value; otherwise it raises IndexError and the       *)
(* selection stays what it was.  (No step of the setter ends otherwise.)   *)
C6_ChannelSetterValidates ==
    (opened /\ ~self.isRGB) =>
        \A value \in ChannelInputs :
            /\ ENABLED SetChannelTo(value)
            /\ ~ENABLED (/\ SetChannelTo(value)
                         /\ ~(IF ValidSelection(value.items, self.sizeC)
                              THEN /\ raised' = "none"
                                   /\ self'.channel = PyTuple(value.items)
                              ELSE /\ raised' = "IndexError"
                                   /\ self'.channel = self.channel))

(* The setter rejected a value while two channels were selected. *)
C6_Witness ==
    /\ opened
    /\ call = "channel"
    /\ raised = "IndexError"
    /\ ~self.isRGB
    /\ self.channel = PyTuple(<<0, MaxC - 1>>)

(* The setter accepted a selection of two channels. *)
C6_WitnessAccepted ==
    /\ opened
    /\ call = "channel"
    /\ raised = "none"
    /\ self.channel = PyTuple(<<MaxC - 1, 0>>)

(* The reader is constructed on series `series`, which reports d, with    *)
(* C=C.                                                                    *)
OpenedOn(series, C, d) ==
    \E colors \in BOOLEAN : OpenAs(series, C, d, colors)

(* The step is a call of the series setter that made another series the    *)
(* active one of the Java reader.                                          *)
Switched == call' = "series" /\ rdr'.series # rdr.series

(* C7: while the active series is not RGB, every index of the channel      *)
(* selection lies in [0, sizeC) of the active series.  Opening on, or      *)
(* switching to, a non-RGB series does not raise; it keeps the selection   *)
(* when it is valid for that series and resets it to all its channels when *)
(* it is not, or when none was given.  (The Java reader holds the series   *)
(* and the report of such a step after it.)                                *)
C7_SelectionWithinActiveSeries ==
    /\ []((opened /\ ~self.isRGB) =>
              /\ self.channel.kind = "tuple"
              /\ ValidSelection(self.channel.items, self.sizeC))
    /\ [][/\ (/\ call' = "open"
               /\ ~OutOfRange(rdr'.series, MaxSeries)
               /\ ~rdr'.desc.rgb) =>
                  /\ raised' = "none"
                  /\ \A C \in {PyNone} \cup ChannelInputs :
                         OpenedOn(rdr'.series, C, rdr'.desc) =>
                             self'.channel =
                                 IF /\ C # PyNone
                                    /\ ValidSelection(C.items, rdr'.desc.C)
                                 THEN PyTuple(C.items)
                                 ELSE PyTuple(Range(rdr'.desc.C))
          /\ (Switched /\ ~rdr'.desc.rgb) =>
                  /\ raised' = "none"
                  /\ self'.channel =
                         IF ValidSelection(self.channel.items, rdr'.desc.C)
                         THEN self.channel
                         ELSE PyTuple(Range(rdr'.desc.C))]_vars

(* A switch from the series the reader was opened on, of MaxC channels, to *)
(* a non-RGB series of one channel.                                        *)
C7_Witness ==
    /\ opened
    /\ call = "series"
    /\ raised = "none"
    /\ ~self.isRGB
    /\ self.series # 0
    /\ Len(self.channel_RGB_all) = MaxC
    /\ self.sizeC = 1
    /\ self.channel = PyTuple(<<0>>)

(* A switch to a non-RGB series of MaxC channels that kept a selection of  *)
(* the last channel.                                                       *)
C7_WitnessKept ==
    /\ opened
    /\ call = "series"
    /\ raised = "none"
    /\ ~self.isRGB
    /\ Len(self.channel_RGB_all) = 1
    /\ self.sizeC = MaxC
    /\ self.channel = PyTuple(<<MaxC - 1>>)

---------------------------------------------------------------------------
(* Claims about RGB series and the shape of a frame. *)

(* C8: opening the reader on an RGB series, and switching its active       *)
(* series to an RGB series, does not raise and leaves a reader with        *)
(* sizeC = 1, the channel selection (0,) and the frame_shape (sizeY,       *)
(* sizeX, samples per pixel) of that series.                               *)
C8_RGBSeriesOpens ==
    [][(/\ \/ call' = "open" /\ ~OutOfRange(rdr'.series, MaxSeries)
           \/ Switched
        /\ rdr'.desc.rgb) =>
           /\ raised' = "none"
           /\ opened'
           /\ self'.sizeC = 1
           /\ self'.channel = PyTuple(<<0>>)
           /\ frame_shape(self') =
                  <<rdr'.desc.Y, rdr'.desc.X, rdr'.desc.sizeRGB>>]_vars

(* C9: on a reader whose active series is RGB, get_frame(t) with a valid t *)
(* returns a frame, and the last dimension of its array is the samples per *)
(* pixel of the series; it does not raise the AttributeError of the        *)
(* channel property.                                                       *)
C9_RGBFrameReturned ==
    (call = "get_frame" /\ self.isRGB) =>
        /\ raised = "none"
        /\ Len(frame.array.shape) >= 1
        /\ frame.array.shape[Len(frame.array.shape)] = self.sizeRGB

(* C10: the array get_frame(t) returns has the shape frame_shape reports,  *)
(* for every valid t, active series and channel selection.                 *)
C10_FrameShapeIsShapeOfFrame ==
    Returned => frame.array.shape = frame_shape(self)

(* C12: when a plane read fails during get_frame(t), the call raises and   *)
(* returns no Frame, so no partly filled array, and leaves the reader's    *)
(* active series, channel selection and sizes as they were.  (No step of   *)
(* such a call ends otherwise.)                                            *)
C12_FailedReadAbortsFrame ==
    /\ (call = "get_frame" /\ raised = "JavaException") => frame = NoFrame
    /\ opened =>
           ~ENABLED (/\ GetFrameReadFails
                     /\ ~(/\ raised' = "JavaException"
                          /\ frame' = NoFrame
                          /\ self'.series = self.series
                          /\ self'.channel = self.channel
                          /\ sizes(self') = sizes(self)
                          /\ self' = self
                          /\ rdr' = rdr))

(* A read failed in a frame of several planes, on a series the reader      *)
(* switched to.                                                            *)
C12_Witness ==
    /\ opened
    /\ call = "get_frame"
    /\ raised = "JavaException"
    /\ Len(self.channel.items) * self.sizeZ >= 2
    /\ self.series # 0
    /\ Len(self.channel_RGB_all) # self.sizeC

---------------------------------------------------------------------------
(* File names: tuples of characters. *)

DigitValue ==
    ("0" :> 0) @@ ("1" :> 1) @@ ("2" :> 2) @@ ("3" :> 3) @@ ("4" :> 4)
    @@ ("5" :> 5) @@ ("6" :> 6) @@ ("7" :> 7) @@ ("8" :> 8) @@ ("9" :> 9)

(* The code points of the characters the file names are made of. *)
Ord ==
    [ch \in DOMAIN DigitValue |-> 48 + DigitValue[ch]]
    @@ ("." :> 46) @@ ("/" :> 47) @@ ("_" :> 95) @@ ("a" :> 97)
    @@ ("b" :> 98) @@ ("c" :> 99) @@ ("d" :> 100) @@ ("p" :> 112)
    @@ ("t" :> 116) @@ ("w" :> 119) @@ ("z" :> 122)

isdigit(ch) == ch \in DOMAIN DigitValue

(* int(digits) of a run of digits. *)
RECURSIVE int(_)
int(digits) ==
    IF Len(digits) = 0 THEN 0
    ELSE 10 * int(SubSeq(digits, 1, Len(digits) - 1))
             + DigitValue[digits[Len(digits)]]

(* The position after the run of digits that starts at position i. *)
RECURSIVE digits_end(_, _)
digits_end(text, i) ==
    IF i <= Len(text) /\ isdigit(text[i]) THEN digits_end(text, i + 1) ELSE i

(* str < str and list < list of Python: the first difference decides, and  *)
(* a proper prefix comes first.                                            *)
RECURSIVE str_less(_, _)
str_less(a, b) ==
    IF Len(b) = 0 THEN FALSE
    ELSE IF Len(a) = 0 THEN TRUE
    ELSE IF a[1] # b[1] THEN Ord[a[1]] < Ord[b[1]]
    ELSE str_less(Tail(a), Tail(b))

---------------------------------------------------------------------------
(* The natural sort key (pims.utils.sort.natural_keys): the text split at  *)
(* its runs of digits, the runs converted to integers.  A key alternates   *)
(* text and number segments and starts with a text segment, which may be   *)
(* empty.                                                                  *)

TextSegment(text) == [num |-> FALSE, text |-> text, value |-> 0]
NumSegment(digits) == [num |-> TRUE, text |-> <<>>, value |-> int(digits)]

RECURSIVE natural_split(_, _, _, _)
natural_split(text, i, piece, key) ==
    IF i > Len(text) THEN Append(key, TextSegment(piece))
    ELSE IF isdigit(text[i])
    THEN LET e == digits_end(text, i)
         IN  natural_split(text, e, <<>>,
                 key \o <<TextSegment(piece),
                          NumSegment(SubSeq(text, i, e - 1))>>)
    ELSE natural_split(text, i + 1, Append(piece, text[i]), key)

natural_keys(text) == natural_split(text, 1, <<>>, <<>>)

(* The order of two segments, and of two keys (lists of segments). *)
segment_less(a, b) ==
    IF a.num /\ b.num THEN a.value < b.value
    ELSE IF ~a.num /\ ~b.num THEN str_less(a.text, b.text)
    ELSE a.num

RECURSIVE key_less(_, _)
key_less(k1, k2) ==
    IF Len(k2) = 0 THEN FALSE
    ELSE IF Len(k1) = 0 THEN TRUE
    ELSE IF k1[1] # k2[1] THEN segment_less(k1[1], k2[1])
    ELSE key_less(Tail(k1), Tail(k2))

(* sorted(names, key=natural_keys): a stable sort. *)
RECURSIVE insert_sorted(_, _)
insert_sorted(done, name) ==
    IF Len(done) = 0 THEN <<name>>
    ELSE IF key_less(natural_keys(name), natural_keys(done[Len(done)]))
    THEN Append(insert_sorted(SubSeq(done, 1, Len(done) - 1), name),
                done[Len(done)])
    ELSE Append(done, name)

RECURSIVE sorted_natural(_)
sorted_natural(names) ==
    IF Len(names) = 0 THEN <<>>
    ELSE insert_sorted(sorted_natural(SubSeq(names, 1, Len(names) - 1)),
                       names[Len(names)])

---------------------------------------------------------------------------
(* BaseImageSequence (src/pims/image_sequence.py).  A path_spec is given   *)
(* by its form ("iterable", "zip", "dir" or "glob") and by the names it    *)
(* yields: the elements of the iterable as the caller passes them, or the  *)
(* names the archive, the directory or the pattern lists, in the order     *)
(* they are listed.                                                        *)

MaxFiles == 3       \* a path_spec yields at most MaxFiles names

(* The names of the files: four images, three of them numbered 1, 2 and    *)
(* 10, two with the same number (2 and 02), and a file without extension.  *)
FileNames ==
    {<<"a", "1", ".", "p">>, <<"a", "2", ".", "p">>,
     <<"a", "1", "0", ".", "p">>, <<"a", "0", "2", ".", "p">>, <<"b">>}

Listings ==
    {l \in SeqsUpTo(FileNames, MaxFiles) :
        \A i, j \in 1..Len(l) : i # j => l[i] # l[j]}

PathSpecs == [form : {"iterable", "zip", "dir", "glob"}, names : Listings]

(* fnmatch.fnmatch(fn, '*.*'): the name holds a dot. *)
fnmatch_dot(fn) == \E i \in 1..Len(fn) : fn[i] = "."

(* os.path.abspath(os.path.join(directory, filename)), the directory being *)
(* /d.                                                                     *)
make_full_path(filename) == <<"/", "d", "/">> \o filename

(* A _get_files that keeps the names in the order they are listed. *)
get_files_unsorted(path_spec) ==
    IF path_spec.form = "iterable"
    THEN [is_zipfile |-> FALSE, filepaths |-> path_spec.names,
          count |-> Len(path_spec.names), raised |-> "none"]
    ELSE IF path_spec.form = "zip"
    THEN LET filepaths == SelectSeq(path_spec.names, fnmatch_dot)
         IN  [is_zipfile |-> TRUE, filepaths |-> filepaths,
              count |-> Len(filepaths), raised |-> "none"]
    ELSE LET filepaths ==
                 IF path_spec.form = "dir"
                 THEN [i \in 1..Len(path_spec.names) |->
                          make_full_path(path_spec.names[i])]
                 ELSE path_spec.names
         IN  [is_zipfile |-> FALSE, filepaths |-> filepaths,
              count |-> Len(filepaths),
              raised |-> IF Len(filepaths) = 0 THEN "IOError" ELSE "none"]

(* BaseImageSequence._get_files: [is_zipfile, filepaths, count, raised]. *)
get_files(path_spec) ==
    IF path_spec.form = "iterable"
    THEN [is_zipfile |-> FALSE, filepaths |-> sorted_natural(path_spec.names),
          count |-> Len(path_spec.names), raised |-> "none"]
    ELSE IF path_spec.form = "zip"
    THEN LET filepaths == SelectSeq(path_spec.names, fnmatch_dot)
         IN  [is_zipfile |-> TRUE, filepaths |-> sorted_natural(filepaths),
              count |-> Len(sorted_natural(filepaths)), raised |-> "none"]
    ELSE LET filepaths ==
                 IF path_spec.form = "dir"
                 THEN [i \in 1..Len(path_spec.names) |->
                          make_full_path(path_spec.names[i])]
                 ELSE path_spec.names
             sorted == sorted_natural(filepaths)
         IN  [is_zipfile |-> FALSE, filepaths |-> sorted,
              count |-> Len(sorted),
              raised |-> IF Len(sorted) = 0 THEN "IOError" ELSE "none"]

(* BaseImageSequence.__init__: the object after the construction, which    *)
(* reads the first file to learn the shape of the frames.                  *)
seq_init(path_spec) ==
    LET got == get_files(path_spec)
        q == [NoSeq EXCEPT !.path_spec = path_spec, !.call = "open"]
    IN  IF got.raised # "none"
        THEN [q EXCEPT !.state = "failed", !.raised = got.raised]
        ELSE IF Len(got.filepaths) = 0     \* self._filepaths[0]
        THEN [q EXCEPT !.state = "failed", !.raised = "IndexError"]
        ELSE [q EXCEPT !.state = "open",
                       !.is_zipfile = got.is_zipfile,
                       !.filepaths = got.filepaths,
                       !.count = got.count,
                       !.reads = <<got.filepaths[1]>>]

(* BaseImageSequence.get_frame(j): the object after the call.  A list      *)
(* takes the indices from -len to len - 1.                                 *)
seq_get_frame(q, j) ==
    LET q1 == [q EXCEPT !.call = "get_frame", !.frame = NoSeqFrame,
                        !.raised = "none"]
        n == Len(q.filepaths)
    IN  IF j > q.count
        THEN [q1 EXCEPT !.raised = "ValueError"]
        ELSE IF j >= n \/ j < -n
        THEN [q1 EXCEPT !.raised = "IndexError"]
        ELSE LET file == q.filepaths[IF j < 0 THEN n + j + 1 ELSE j + 1]
             IN  [q1 EXCEPT !.frame = [file |-> file, frame_no |-> j],
                            !.reads = Append(q.reads, file)]

(* BaseImageSequence.__len__ *)
seq_len(q) == q.count

(* The frame numbers a caller asks for. *)
FrameInputs == -1..(MaxFiles + 1)

InitSeq ==
    /\ NoReader
    /\ process = NoProcess
    /\ imseq = NoSeq
    /\ parse = NoParse
    /\ zvi = NoZVI
    /\ retrieve = NoMetadata

(* A new image sequence, once. *)
SeqOpenOn(path_spec) ==
    /\ imseq.state = "none"
    /\ imseq' = seq_init(path_spec)
    /\ UNCHANGED <<bioformats_vars, process, parse, zvi, retrieve>>

SeqOpen == imseq.state = "none" /\ \E path_spec \in PathSpecs : SeqOpenOn(path_spec)

(* get_frame(j); the reads of the calls before are forgotten. *)
SeqGetFrameAt(j) ==
    /\ imseq.state = "open"
    /\ imseq' = seq_get_frame([imseq EXCEPT !.reads = <<>>], j)
    /\ UNCHANGED <<bioformats_vars, process, parse, zvi, retrieve>>

SeqGetFrame == imseq.state = "open" /\ \E j \in FrameInputs : SeqGetFrameAt(j)

NextSeq == SeqOpen \/ SeqGetFrame

SpecSeq == InitSeq /\ [][NextSeq]_vars

---------------------------------------------------------------------------
(* Claims about BaseImageSequence. *)

(* C11: get_frame(j) raises IndexError and returns no frame for every      *)
(* j >= len(self).                                                         *)
C11_GetFrameBeyondEndFails ==
    [][\A j \in FrameInputs :
          (j >= seq_len(imseq) /\ SeqGetFrameAt(j)) =>
              /\ imseq'.raised = "IndexError"
              /\ imseq'.frame = NoSeqFrame]_vars

(* A frame was returned for a frame number from 0. *)
SeqReturned ==
    /\ imseq.call = "get_frame"
    /\ imseq.raised = "none"
    /\ imseq.frame.frame_no >= 0

(* C15: when path_spec is an iterable of names, the files are opened in    *)
(* the order they are given: frame j is read from element j of the         *)
(* iterable as the caller passed it.                                       *)
C15_IterableOrderKept ==
    /\ (imseq.state = "open" /\ imseq.path_spec.form = "iterable") =>
           seq_len(imseq) = Len(imseq.path_spec.names)
    /\ (SeqReturned /\ imseq.path_spec.form = "iterable") =>
           imseq.frame.file = imseq.path_spec.names[imseq.frame.frame_no + 1]

(* The files a directory, a pattern or an archive yields: the names        *)
(* listed, as full paths for a directory, those with a dot for an archive. *)
FilesFound(path_spec) ==
    IF path_spec.form = "zip" THEN SelectSeq(path_spec.names, fnmatch_dot)
    ELSE IF path_spec.form = "dir"
    THEN [i \in 1..Len(path_spec.names) |-> make_full_path(path_spec.names[i])]
    ELSE path_spec.names

SeqRange(q) == {q[i] : i \in 1..Len(q)}

(* The number of an image named a<number>.p, under its directory or not. *)
NumberOf(file) ==
    LET i == CHOOSE k \in 1..Len(file) : file[k] = "a"
    IN  int(SubSeq(file, i + 1, digits_end(file, i + 1) - 1))

C20_NoFilesIsIOError ==
    (/\ imseq.call = "open"
     /\ IF imseq.path_spec.form = "iterable"
        THEN Len(imseq.path_spec.names) = 0
        ELSE Len(FilesFound(imseq.path_spec)) = 0) =>
        /\ imseq.state = "failed"
        /\ imseq.raised = "IOError"
        /\ imseq.reads = <<>>

---------------------------------------------------------------------------
(* filename_to_indices (src/pims/image_sequence.py). *)

MaxParts == 4       \* a file name is made of at most MaxParts parts

(* The parts of the names: an identifier with its index (t1, t02, z1, c2), *)
(* a letter that is no identifier, and a digit, which extends an index or  *)
(* stands alone.                                                           *)
NameParts ==
    {<<"t", "1">>, <<"t", "0", "2">>, <<"z", "1">>, <<"c", "2">>, <<"a">>,
     <<"2">>}

RECURSIVE join(_)
join(parts) == IF Len(parts) = 0 THEN <<>> ELSE Head(parts) \o join(Tail(parts))

IndexedNames == {join(parts) : parts \in SeqsUpTo(NameParts, MaxParts)}

(* The values of `identifiers`: the default 'tzc', and two identifiers in  *)
(* another order.                                                          *)
IdentifierInputs == {<<"t", "z", "c">>, <<"c", "t">>}

(* re.findall('(t|z|c)(\d+)', filename) from position i: the matches from *)
(* left to right, each an identifier and the run of digits after it.       *)
RECURSIVE findall(_, _, _, _)
findall(identifiers, filename, i, found) ==
    IF i > Len(filename) THEN found
    ELSE IF /\ \E n \in 1..Len(identifiers) : identifiers[n] = filename[i]
            /\ i < Len(filename)
            /\ isdigit(filename[i + 1])
    THEN LET e == digits_end(filename, i + 1)
         IN  findall(identifiers, filename, e,
                     Append(found, <<filename[i],
                                     SubSeq(filename, i + 1, e - 1)>>))
    ELSE findall(identifiers, filename, i + 1, found)

(* list[-3:] *)
last_three(list) ==
    SubSeq(list, IF Len(list) > 3 THEN Len(list) - 2 ELSE 1, Len(list))

(* filename_to_indices(filename, identifiers): order.index(col) is the     *)
(* first match of the identifier, and the ValueError of a missing one      *)
(* leaves 0.                                                               *)
filename_to_indices(filename, identifiers) ==
    LET all == findall(identifiers, filename, 1, <<>>)
        dimensions ==
            IF Len(all) > Len(identifiers) THEN last_three(all) ELSE all
        order == [k \in 1..Len(dimensions) |-> dimensions[k][1]]
    IN  [i \in 1..Len(identifiers) |->
            LET col == identifiers[i]
                at == {k \in 1..Len(order) : order[k] = col}
            IN  IF at = {} THEN 0
                ELSE int(dimensions[CHOOSE k \in at : \A h \in at : k <= h][2])]

InitIndices ==
    /\ NoReader
    /\ process = NoProcess
    /\ imseq = NoSeq
    /\ zvi = NoZVI
    /\ retrieve = NoMetadata
    /\ parse \in [state : {"called"}, filename : IndexedNames,
                   identifiers : IdentifierInputs, result : {<<>>}]

(* The call returns. *)
Indices ==
    /\ parse.state = "called"
    /\ parse' = [parse EXCEPT
                     !.state = "returned",
                     !.result = filename_to_indices(parse.filename,
                                                    parse.identifiers)]
    /\ UNCHANGED <<bioformats_vars, process, imseq, zvi, retrieve>>

NextIndices == Indices

SpecIndices == InitIndices /\ [][NextIndices]_vars

(* The positions of the file name that hold the identifier followed by a   *)
(* digit, and the number that follows the identifier at such a position.   *)
OccurrencesOf(identifier, filename) ==
    {p \in 1..(Len(filename) - 1) :
        filename[p] = identifier /\ isdigit(filename[p + 1])}

NumberAfter(filename, p) ==
    int(SubSeq(filename, p + 1, digits_end(filename, p + 1) - 1))

(* C14: filename_to_indices(filename, identifiers) returns one integer per *)
(* identifier, in the order of the identifiers: the number that follows    *)
(* the identifier in the file name (at one of its occurrences), and 0 when *)
(* the identifier occurs nowhere followed by digits; so the order of the   *)
(* identifiers in the file name does not matter.                           *)
C14_IndicesOfIdentifiers ==
    parse.state = "returned" =>
        /\ Len(parse.result) = Len(parse.identifiers)
        /\ \A i \in 1..Len(parse.identifiers) :
               LET occurs == OccurrencesOf(parse.identifiers[i], parse.filename)
               IN  IF occurs = {} THEN parse.result[i] = 0
                   ELSE \E p \in occurs :
                            parse.result[i] = NumberAfter(parse.filename, p)

---------------------------------------------------------------------------
(* ImageSequenceND (src/pims/image_sequence.py). *)

(* The files of the sequences: names with the indices of t, z and c, of t  *)
(* and z, of t and c, of z and c, and a name with no index.                *)
NDNames ==
    {<<"t", "1", "z", "1", "c", "1">>, <<"t", "2", "z", "1", "c", "2">>,
     <<"t", "1", "z", "2">>, <<"t", "2", "z", "1">>,
     <<"t", "1", "c", "1">>, <<"t", "2", "c", "2">>,
     <<"z", "1", "c", "1">>, <<"a">>}

NDListings ==
    {l \in SeqsUpTo(NDNames, MaxFiles) :
        \A i, k \in 1..Len(l) : i # k => l[i] # l[k]}

NDPathSpecs == [form : {"iterable", "dir"}, names : NDListings]

(* The values of dim_identifiers: the default 'tzc', and 'tz'. *)
NDIdentifiers == {<<"t", "z", "c">>, <<"t", "z">>}

(* The shape of the first image read. *)
FrameShapes == {<<1, 1>>, <<MaxY, MaxX>>}

(* _init_axis(name, size) on the axes declared so far; the names declared *)
(* here are distinct.                                                     *)
init_axis(reg, name, size) ==
    [reg EXCEPT !.axes = Append(reg.axes, name),
                !.sizes = Append(reg.sizes, size)]

(* The number of columns of the index table, an array of one row per file. *)
ncols(toc) == IF Len(toc) = 0 THEN 0 ELSE Len(toc[1])

(* toc[:, n], n counted from 0 *)
column(toc, n) == [f \in 1..Len(toc) |-> toc[f][n + 1]]

(* np.delete(toc, n, axis=1) *)
delete_column(toc, n) ==
    [f \in 1..Len(toc) |->
        [k \in 1..(ncols(toc) - 1) |->
            IF k <= n THEN toc[f][k] ELSE toc[f][k + 1]]]

seq_min(col) == CHOOSE v \in {col[f] : f \in 1..Len(col)} :
                    \A f \in 1..Len(col) : v <= col[f]

seq_max(col) == CHOOSE v \in {col[f] : f \in 1..Len(col)} :
                    \A f \in 1..Len(col) : v >= col[f]

(* The loop of ImageSequenceND._get_files from its n-th round: the table   *)
(* is indexed by the position n of the identifier whatever columns were    *)
(* deleted before, and a position beyond the columns is an IndexError.     *)
RECURSIVE nd_axes_loop(_, _, _)
nd_axes_loop(dim_identifiers, n, reg) ==
    IF n >= Len(dim_identifiers) THEN reg
    ELSE IF n >= ncols(reg.toc)
    THEN [reg EXCEPT !.raised = "IndexError"]
    ELSE LET col == column(reg.toc, n)
         IN  IF \A f \in 1..Len(col) : col[f] = 0
             THEN nd_axes_loop(dim_identifiers, n + 1,
                               [reg EXCEPT !.toc = delete_column(reg.toc, n)])
             ELSE LET shifted ==
                          [f \in 1..Len(reg.toc) |->
                              [reg.toc[f] EXCEPT ![n + 1] = @ - seq_min(col)]]
                  IN  nd_axes_loop(dim_identifiers, n + 1,
                          init_axis([reg EXCEPT !.toc = shifted],
                                    dim_identifiers[n + 1],
                                    seq_max(column(shifted, n)) + 1))

(* ImageSequenceND._get_files:                                             *)
(* [is_zipfile, filepaths, count, raised, toc, axes, sizes].               *)
nd_get_files(path_spec, dim_identifiers) ==
    LET got == get_files(path_spec)
        reg == [is_zipfile |-> got.is_zipfile, filepaths |-> got.filepaths,
                count |-> got.count, raised |-> got.raised,
                toc |-> [f \in 1..Len(got.filepaths) |->
                            filename_to_indices(got.filepaths[f],
                                                dim_identifiers)],
                axes |-> <<>>, sizes |-> <<>>]
    IN  IF got.raised # "none" THEN [reg EXCEPT !.toc = <<>>]
        ELSE nd_axes_loop(dim_identifiers, 0, reg)

(* ImageSequenceND.__init__: the object after the construction. *)
nd_init(path_spec, dim_identifiers, shape) ==
    LET got == nd_get_files(path_spec, dim_identifiers)
        q == [NoSeq EXCEPT !.path_spec = path_spec, !.call = "open_nd",
                           !.dim_identifiers = dim_identifiers]
    IN  IF got.raised # "none"
        THEN [q EXCEPT !.state = "failed", !.raised = got.raised]
        ELSE LET reg == init_axis(init_axis(got, "y", shape[1]), "x", shape[2])
                 has(name) == \E k \in 1..Len(reg.axes) : reg.axes[k] = name
             IN  [q EXCEPT !.state = "open",
                           !.is_zipfile = got.is_zipfile,
                           !.filepaths = got.filepaths,
                           !.count = got.count,
                           !.reads = <<got.filepaths[1]>>,
                           !.toc = reg.toc,
                           !.axes = reg.axes,
                           !.sizes = reg.sizes,
                           !.iter_axes = IF has("t") THEN <<"t">> ELSE <<>>,
                           !.bundle_axes = IF has("z") THEN <<"z", "y", "x">>
                                           ELSE <<>>]

(* A new ImageSequenceND, once. *)
NDOpenOn(path_spec, dim_identifiers, shape) ==
    /\ imseq.state = "none"
    /\ imseq' = nd_init(path_spec, dim_identifiers, shape)
    /\ UNCHANGED <<bioformats_vars, process, parse, zvi, retrieve>>

NDOpen ==
    /\ imseq.state = "none"
    /\ \E path_spec \in NDPathSpecs, dim_identifiers \in NDIdentifiers,
          shape \in FrameShapes :
            NDOpenOn(path_spec, dim_identifiers, shape)

NextND == NDOpen

SpecND == InitSeq /\ [][NextND]_vars

(* The position of an axis among the declared axes, 0 when not declared. *)
AxisAt(q, name) ==
    IF \E k \in 1..Len(q.axes) : q.axes[k] = name
    THEN CHOOSE k \in 1..Len(q.axes) : q.axes[k] = name
    ELSE 0

(* C13: ImageSequenceND._get_files handles any subset of the identifiers   *)
(* being present in the names of the files found: an axis is declared for  *)
(* an identifier exactly when some file carries a non-zero index for it,   *)
(* its size is max - min + 1 of the indices of that identifier, the table  *)
(* holds these indices less their minimum in the column of the axis, and   *)
(* the table has one column per axis declared from the identifiers.        *)
C13_AxesOfPresentIdentifiers ==
    LET files == get_files(imseq.path_spec).filepaths
        ids == imseq.dim_identifiers
        rows == [f \in 1..Len(files) |-> filename_to_indices(files[f], ids)]
    IN  (imseq.call = "open_nd" /\ Len(files) > 0) =>
            /\ imseq.state = "open"
            /\ ncols(imseq.toc) = Len(imseq.axes) - 2
            /\ \A i \in 1..Len(ids) :
                   LET col == [f \in 1..Len(files) |-> rows[f][i]]
                       at == AxisAt(imseq, ids[i])
                   IN  IF \A f \in 1..Len(files) : col[f] = 0
                       THEN at = 0
                       ELSE /\ at # 0
                            /\ imseq.sizes[at] = seq_max(col) - seq_min(col) + 1
                            /\ \A f \in 1..Len(files) :
                                   imseq.toc[f][at] = col[f] - seq_min(col)

---------------------------------------------------------------------------
(* ZVI (src/pims/zvi_reader.py). *)

MaxItems == 3       \* a file holds at most MaxItems images

(* A stream of the OLE file is its path: the storage at the top, the       *)
(* number k of a second component Item(k) (NoItem for another component)   *)
(* and the name of the stream.                                             *)
NoItem == -1

ItemStream(k, leaf) == [top |-> "Image", item |-> k, leaf |-> leaf]

(* The files: Image/Item(0) .. Image/Item(N-1), each with its Contents,    *)
(* and optionally a Tags stream beside each Contents, the Contents of the  *)
(* Image storage itself, and a stream outside the Image storage.           *)
ZVIExtras == {"tags", "image_contents", "root"}

ZVIFiles == [items : 0..MaxItems, extras : SUBSET ZVIExtras]

RECURSIVE item_streams(_, _, _)
item_streams(file, k, streams) ==
    IF k >= file.items THEN streams
    ELSE item_streams(file, k + 1,
             streams \o <<ItemStream(k, "Contents")>>
                     \o (IF "tags" \in file.extras
                         THEN <<ItemStream(k, "Tags")>> ELSE <<>>))

(* self._ole.listdir() *)
listdir(file) ==
    (IF "root" \in file.extras
     THEN <<[top |-> "Root", item |-> NoItem, leaf |-> "Contents"]>> ELSE <<>>)
    \o (IF "image_contents" \in file.extras
        THEN <<ItemStream(NoItem, "Contents")>> ELSE <<>>)
    \o item_streams(file, 0, <<>>)

(* The loop over the streams: the number of every Image/Item(k)/... *)
RECURSIVE build_toc(_, _)
build_toc(streams, toc) ==
    IF Len(streams) = 0 THEN toc
    ELSE LET stream == Head(streams)
         IN  IF stream.top # "Image" THEN build_toc(Tail(streams), toc)
             ELSE IF stream.item = NoItem THEN build_toc(Tail(streams), toc)
             ELSE build_toc(Tail(streams), Append(toc, stream.item))

(* ZVI.__init__(filename, dtype=dtype): the object after the construction. *)
(* max() of an empty list is a ValueError.                                 *)
zvi_init(file, dtype) ==
    LET streams == listdir(file)
        toc == build_toc(streams, <<>>)
        v == [NoZVI EXCEPT !.file = file, !.call = "open"]
    IN  IF dtype # "None"
        THEN [v EXCEPT !.state = "failed", !.raised = "ValueError",
                       !.streams = streams]
        ELSE IF Len(toc) = 0
        THEN [v EXCEPT !.state = "failed", !.raised = "ValueError",
                       !.streams = streams, !.toc = toc]
        ELSE [v EXCEPT !.state = "open", !.streams = streams, !.toc = toc,
                       !.len = seq_max(toc)]

(* openstream(['Image', 'Item(j)', 'Contents']) finds the stream. *)
stream_exists(streams, j) ==
    \E k \in 1..Len(streams) : streams[k] = ItemStream(j, "Contents")

(* ZVI.get_frame(j): the object after the call. *)
zvi_get_frame(v, j) ==
    LET v1 == [v EXCEPT !.call = "get_frame", !.j = j,
                        !.frame = NoZVIFrame, !.raised = "none"]
    IN  IF ~stream_exists(v.streams, j)
        THEN [v1 EXCEPT !.raised = "IOError"]
        ELSE [v1 EXCEPT !.frame = [item |-> j, frame_no |-> j]]

(* ZVI.__len__ *)
zvi_len(v) == v.len

InitZVI ==
    /\ NoReader
    /\ process = NoProcess
    /\ imseq = NoSeq
    /\ parse = NoParse
    /\ zvi = NoZVI
    /\ retrieve = NoMetadata

(* A new ZVI reader, once. *)
ZVIOpenOn(file, dtype) ==
    /\ zvi.state = "none"
    /\ zvi' = zvi_init(file, dtype)
    /\ UNCHANGED <<bioformats_vars, process, imseq, parse, retrieve>>

ZVIOpen ==
    /\ zvi.state = "none"
    /\ \E file \in ZVIFiles, dtype \in {"None", "uint16"} :
           ZVIOpenOn(file, dtype)

(* The frame numbers a caller asks for. *)
ZVIFrameInputs == 0..MaxItems

ZVIGetFrameAt(j) ==
    /\ zvi.state = "open"
    /\ zvi' = zvi_get_frame(zvi, j)
    /\ UNCHANGED <<bioformats_vars, process, imseq, parse, retrieve>>

ZVIGetFrame == zvi.state = "open" /\ \E j \in ZVIFrameInputs : ZVIGetFrameAt(j)

NextZVI == ZVIOpen \/ ZVIGetFrame

SpecZVI == InitZVI /\ [][NextZVI]_vars

(* C17: a ZVI reader of a file that holds Image/Item(0) .. Item(N-1) has   *)
(* the length N, and get_frame(j) finds its stream for every j from 0 to   *)
(* the length less one.                                                    *)
C17_LengthIsNumberOfItems ==
    /\ (zvi.state = "open" /\ zvi.file.items >= 1) =>
           zvi_len(zvi) = zvi.file.items
    /\ (zvi.call = "get_frame" /\ zvi.j \in 0..(zvi_len(zvi) - 1)) =>
           /\ zvi.raised = "none"
           /\ zvi.frame = [item |-> zvi.j, frame_no |-> zvi.j]

---------------------------------------------------------------------------
(* The Java virtual machine of the process                                 *)
(* (BioformatsReaderRaw.__init__, src/pims/bioformats.py).                 *)

MaxConstructions == 5   \* the readers constructed in one process

JavaMemory == {"512m", "1g"}

(* What a construction did is logged step by step. *)
logged(p, step) == [p EXCEPT !.log = Append(p.log, step)]

(* download_jar() when loci_tools.jar is not there; a failed download      *)
(* raises and leaves no file.                                              *)
ensure_jar(p, download_ok) ==
    IF p.jar THEN p
    ELSE IF download_ok THEN [logged(p, "download") EXCEPT !.jar = TRUE]
    ELSE [logged(p, "download") EXCEPT !.raised = "IOError"]

(* The start-up step done whatever jpype.isJVMStarted() says. *)
start_jvm_every_time(p, java_memory) ==
    [logged(p, "startJVM") EXCEPT !.jvm = "on", !.xmx = java_memory,
                                  !.starts = p.starts + 1]

(* if not jpype.isJVMStarted(): jpype.startJVM(..., '-Xmx' + java_memory) *)
start_jvm(p, java_memory) ==
    IF p.jvm = "on" THEN p
    ELSE [logged(p, "startJVM") EXCEPT !.jvm = "on", !.xmx = java_memory,
                                       !.starts = p.starts + 1]

(* The rest of the construction: the thread, the Java reader, setId, and   *)
(* the check of the series.                                                *)
open_reader(p, series_ok) ==
    LET used == logged(logged(logged(p, "attachThread"), "rdr"), "setId")
    IN  IF series_ok THEN used
        ELSE [logged(used, "close") EXCEPT !.raised = "IndexError"]

(* A construction that looks for the file after Java is up. *)
construct_file_last(p, filename_exists, download_ok, java_memory, series_ok) ==
    LET p0 == [p EXCEPT !.constructions = p.constructions + 1,
                        !.filename_exists = filename_exists,
                        !.java_memory = java_memory,
                        !.log = <<>>, !.raised = "none"]
        p1 == ensure_jar(p0, download_ok)
    IN  IF p1.raised # "none" THEN p1
        ELSE IF ~filename_exists
        THEN [logged(start_jvm(p1, java_memory), "isfile")
                EXCEPT !.raised = "IOError"]
        ELSE open_reader(logged(start_jvm(p1, java_memory), "isfile"),
                         series_ok)

(* BioformatsReaderRaw.__init__(filename, java_memory=..., series=...):    *)
(* the process after the construction.                                     *)
construct(p, filename_exists, download_ok, java_memory, series_ok) ==
    LET p0 == [p EXCEPT !.constructions = p.constructions + 1,
                        !.filename_exists = filename_exists,
                        !.java_memory = java_memory,
                        !.log = <<"isfile">>, !.raised = "none"]
    IN  IF ~filename_exists THEN [p0 EXCEPT !.raised = "IOError"]
        ELSE LET p1 == ensure_jar(p0, download_ok)
             IN  IF p1.raised # "none" THEN p1
                 ELSE open_reader(start_jvm(p1, java_memory), series_ok)

(* The process starts with or without loci_tools.jar beside the module. *)
InitJVM ==
    /\ NoReader
    /\ imseq = NoSeq
    /\ parse = NoParse
    /\ zvi = NoZVI
    /\ retrieve = NoMetadata
    /\ \E jar \in BOOLEAN : process = [NoProcess EXCEPT !.jar = jar]

Construct(filename_exists, download_ok, java_memory, series_ok) ==
    /\ process.constructions < MaxConstructions
    /\ process' = construct(process, filename_exists, download_ok,
                            java_memory, series_ok)
    /\ UNCHANGED <<bioformats_vars, imseq, parse, zvi, retrieve>>

Constructs ==
    /\ process.constructions < MaxConstructions
    /\ \E filename_exists \in BOOLEAN, download_ok \in BOOLEAN,
          java_memory \in JavaMemory, series_ok \in BOOLEAN :
            Construct(filename_exists, download_ok, java_memory, series_ok)

NextJVM == Constructs

SpecJVM == InitJVM /\ [][NextJVM]_vars

(* The position of a step in the log of the last construction, 0 when the  *)
(* construction did not do it.                                             *)
StepAt(p, step) ==
    IF \E k \in 1..Len(p.log) : p.log[k] = step
    THEN CHOOSE k \in 1..Len(p.log) : p.log[k] = step
    ELSE 0

C19_MissingFileRaisesFirst ==
    /\ []((process.constructions > 0 /\ ~process.filename_exists) =>
             /\ process.raised = "IOError"
             /\ StepAt(process, "download") = 0
             /\ StepAt(process, "startJVM") = 0
             /\ StepAt(process, "rdr") = 0)
    /\ [][(process'.constructions # process.constructions
           /\ ~process'.filename_exists) =>
              /\ process'.jar = process.jar
              /\ process'.jvm = process.jvm
              /\ process'.starts = process.starts]_vars

(* The file is missing when the jar is missing too and no JVM is up. *)
C19_Witness ==
    /\ process.constructions > 0
    /\ ~process.filename_exists
    /\ process.raised = "IOError"
    /\ ~process.jar
    /\ process.jvm = "off"

---------------------------------------------------------------------------
(* ImageSequenceND.get_frame_2D (src/pims/image_sequence.py). *)

MaxCoord == 1       \* the coordinates asked for are 0..MaxCoord

(* The keyword arguments ind: a set of pairs <<name, coordinate>>, for   *)
(* t, z and c, or for t and z alone.                                       *)
Requests ==
    UNION {{{<<name, f[name]>> : name \in names} : f \in [names -> 0..MaxCoord]} :
              names \in {{"t", "z", "c"}, {"t", "z"}}}

has_key(ind, name) == \E pair \in ind : pair[1] = name

(* ind[name] *)
value_of(ind, name) == (CHOOSE pair \in ind : pair[1] = name)[2]

(* ImageSequenceND.get_frame_2D with the keywords ind: the object after   *)
(* the call.  A name of dim_identifiers that is no keyword is a KeyError;  *)
(* a row that has not the length of the rows of the table matches no row   *)
(* as a whole and np.all(..., 1) fails; argwhere lists the matching rows   *)
(* in the order of the table and [0, 0] of an empty list is an IndexError. *)
(* The image returned is no Frame and carries no frame number.             *)
nd_get_frame_2D(q, ind) ==
    LET q1 == [q EXCEPT !.call = "get_frame_2D", !.ind = ind,
                        !.frame = NoSeqFrame, !.raised = "none"]
        ids == q.dim_identifiers
    IN  IF \E i \in 1..Len(ids) : ~has_key(ind, ids[i])
        THEN [q1 EXCEPT !.raised = "KeyError"]
        ELSE LET row == [i \in 1..Len(ids) |-> value_of(ind, ids[i])]
                 matches == {f \in 1..Len(q.toc) : q.toc[f] = row}
             IN  IF Len(row) # ncols(q.toc)
                 THEN [q1 EXCEPT !.raised = "ValueError"]
                 ELSE IF matches = {}
                 THEN [q1 EXCEPT !.raised = "IndexError"]
                 ELSE LET i == CHOOSE f \in matches : \A g \in matches : f <= g
                      IN  [q1 EXCEPT
                              !.frame = [file |-> q.filepaths[i], frame_no |-> -1],
                              !.reads = Append(q.reads, q.filepaths[i])]

(* get_frame_2D with the keywords ind; the reads of the calls before are   *)
(* forgotten.                                                              *)
NDGetFrame2DAt(ind) ==
    /\ imseq.state = "open"
    /\ imseq' = nd_get_frame_2D([imseq EXCEPT !.reads = <<>>], ind)
    /\ UNCHANGED <<bioformats_vars, process, parse, zvi, retrieve>>

NDGetFrame2D == imseq.state = "open" /\ \E ind \in Requests : NDGetFrame2DAt(ind)

NextND2D == NDOpen \/ NDGetFrame2D

SpecND2D == InitSeq /\ [][NextND2D]_vars

(* The files of the sequence whose indices, less the minimum of each       *)
(* identifier over the files, are the coordinates asked for.               *)
FilesAt(q, ind) ==
    LET ids == q.dim_identifiers
        rows == [f \in 1..Len(q.filepaths) |->
                    filename_to_indices(q.filepaths[f], ids)]
    IN  {f \in 1..Len(q.filepaths) :
            \A i \in 1..Len(ids) :
                rows[f][i] - seq_min(column(rows, i - 1)) = value_of(ind, ids[i])}

(* A call that gave a coordinate for every identifier. *)
Asked2D ==
    /\ imseq.call = "get_frame_2D"
    /\ \A i \in 1..Len(imseq.dim_identifiers) :
           has_key(imseq.ind, imseq.dim_identifiers[i])

(* C21: get_frame_2D with the keywords ind reads the file whose indices,   *)
(* less the minimum of each identifier, are the coordinates asked for every identifier of   *)
(* dim_identifiers, the first such file in natural order when there are    *)
(* several, and fails with no image when there is none.                    *)
C21_FrameOfCoordinates ==
    Asked2D =>
        LET at == FilesAt(imseq, imseq.ind)
        IN  IF at = {}
            THEN imseq.raised # "none" /\ imseq.frame = NoSeqFrame
            ELSE /\ imseq.raised = "none"
                 /\ imseq.frame.file =
                        imseq.filepaths[CHOOSE f \in at : \A g \in at : f <= g]
                 /\ imseq.reads = <<imseq.frame.file>>

---------------------------------------------------------------------------
(* MetadataRetrieve (src/pims/bioformats.py). *)

MaxArgs == 5        \* an accessor is called with 0 .. MaxArgs arguments

(* The text of the values of the store. *)
JavaTexts ==
    {<<>>, <<"7">>, <<"1", ".", "5">>, <<"x">>,
     <<"v", "a", "l", "u", "e", "[", "7", "]">>}

(* The stores: getA does anything at each number of arguments, getB takes  *)
(* one argument or is not supported, the other methods take none.          *)
Stores ==
    {[fns |-> [name \in NameSet |->
                  IF name = getA THEN a ELSE IF name = getB THEN b
                  ELSE NoArgMethod],
      text |-> text] :
        a \in [0..(ParamCounts - 1) -> Outcomes],
        b \in {[p \in 0..(ParamCounts - 1) |-> "raise"],
               [p \in 0..(ParamCounts - 1) |-> IF p = 1 THEN "value" ELSE "raise"]},
        text \in JavaTexts}

(* setattr(self, attr, accessor of paramcount) *)
set_attr(bound, attr, paramcount) ==
    {pair \in bound : pair[1] # attr} \cup {<<attr, paramcount>>}

(* A loop over the parameter counts that stops at the first that works. *)
RECURSIVE probe_first_only(_, _, _, _)
probe_first_only(bound, name, fn, paramcount) ==
    IF paramcount >= ParamCounts THEN bound
    ELSE IF fn[paramcount] = "value"
    THEN set_attr(bound, SubSeq(name, 4, Len(name)), paramcount)
    ELSE probe_first_only(bound, name, fn, paramcount + 1)

(* for paramcount in range(5): a call of the getter with paramcount zeros  *)
(* that raises or returns None binds nothing; a call that returns a value  *)
(* binds the accessor under name[3:], over the one bound before.           *)
RECURSIVE probe(_, _, _, _)
probe(bound, name, fn, paramcount) ==
    IF paramcount >= ParamCounts THEN bound
    ELSE IF fn[paramcount] = "value"
    THEN probe(set_attr(bound, SubSeq(name, 4, Len(name)), paramcount),
               name, fn, paramcount + 1)
    ELSE probe(bound, name, fn, paramcount + 1)

(* for name in dir(md), from the k-th name *)
RECURSIVE bind_all(_, _, _)
bind_all(md, k, bound) ==
    IF k > Len(DirNames) THEN bound
    ELSE LET name == DirNames[k]
         IN  IF SubSeq(name, 1, 3) # <<"g", "e", "t">>
                \/ name \in {getRoot, getClass}
             THEN bind_all(md, k + 1, bound)
             ELSE bind_all(md, k + 1, probe(bound, name, md.fns[name], 0))

(* MetadataRetrieve.__init__(md) *)
metadata_init(md) ==
    [NoMetadata EXCEPT !.state = "bound", !.md = md, !.call = "init",
                       !.bound = bind_all(md, 1, {})]

(* text.index(pattern), counted from 1; 0 for the ValueError *)
index_of(text, pattern) ==
    LET at == {i \in 1..(Len(text) - Len(pattern) + 1) :
                  SubSeq(text, i, i + Len(pattern) - 1) = pattern}
    IN  IF at = {} THEN 0 ELSE CHOOSE i \in at : \A k \in at : i <= k

all_digits(text) ==
    Len(text) > 0 /\ \A i \in 1..Len(text) : isdigit(text[i])

(* float(text) takes digits around one point *)
is_float(text) ==
    LET dot == index_of(text, <<".">>)
    IN  /\ dot # 0
        /\ Len(text) > 1
        /\ \A i \in 1..Len(text) : i # dot => isdigit(text[i])

(* The conversion of wrap_md: None for None and '', the text inside        *)
(* 'value[...]' when there is one, then an int, a float or the text.       *)
convert(jw) ==
    IF jw = <<>> THEN NoValue
    ELSE LET open == index_of(jw, <<"v", "a", "l", "u", "e", "[">>)
             temp == SubSeq(jw, open + 6, Len(jw))
             close == index_of(temp, <<"]">>)
             inner == IF open = 0 \/ close = 0 THEN jw
                      ELSE SubSeq(temp, 1, close - 1)
         IN  IF all_digits(inner)
             THEN [type |-> "int", text |-> inner, number |-> int(inner)]
             ELSE IF is_float(inner)
             THEN [type |-> "float", text |-> inner, number |-> 0]
             ELSE [type |-> "str", text |-> inner, number |-> 0]

(* The call of the attribute attr of the object with nargs zeros: the      *)
(* object after the call.                                                  *)
metadata_call(m, attr, nargs) ==
    LET m1 == [m EXCEPT !.call = "call", !.attr = attr, !.nargs = nargs,
                        !.raised = "none", !.value = NoValue]
        found == {pair \in m.bound : pair[1] = attr}
    IN  IF found = {} THEN [m1 EXCEPT !.raised = "AttributeError"]
        ELSE LET paramcount == (CHOOSE pair \in found : TRUE)[2]
                 jw == m.md.fns[<<"g", "e", "t">> \o attr][nargs]
             IN  IF nargs # paramcount
                 THEN [m1 EXCEPT !.raised = "TypeError"]
                 ELSE IF jw = "raise"
                 THEN [m1 EXCEPT !.raised = "JavaException"]
                 ELSE IF jw = "None" THEN m1
                 ELSE [m1 EXCEPT !.value = convert(m.md.text)]

(* The attributes a caller asks for: name[3:] of the names of dir(md). *)
AttrNames == {SubSeq(name, 4, Len(name)) : name \in NameSet}

(* A new MetadataRetrieve, once. *)
MetadataOpenOn(md) ==
    /\ retrieve.state = "none"
    /\ retrieve' = metadata_init(md)
    /\ UNCHANGED <<bioformats_vars, process, imseq, parse, zvi>>

MetadataOpen == retrieve.state = "none" /\ \E md \in Stores : MetadataOpenOn(md)

MetadataCallOn(attr, nargs) ==
    /\ retrieve.state = "bound"
    /\ retrieve' = metadata_call(retrieve, attr, nargs)
    /\ UNCHANGED <<bioformats_vars, process, imseq, parse, zvi>>

MetadataCall ==
    /\ retrieve.state = "bound"
    /\ \E attr \in AttrNames, nargs \in 0..MaxArgs : MetadataCallOn(attr, nargs)

NextMetadata == MetadataOpen \/ MetadataCall

SpecMetadata == Init /\ [][NextMetadata]_vars

(* The parameter counts at which a getter returns a value that is not None.*)
Working(md, name) == {p \in 0..(ParamCounts - 1) : md.fns[name][p] = "value"}

(* The getters MetadataRetrieve looks at. *)
Getters ==
    {name \in NameSet :
        SubSeq(name, 1, 3) = <<"g", "e", "t">> /\ name \notin {getRoot, getClass}}

(* C22: MetadataRetrieve binds an accessor for a getter other than getRoot *)
(* and getClass exactly when the getter, called with p zeros for some p of *)
(* 0 .. 4, returns a value that is not None and does not raise; the        *)
(* accessor takes the largest such p arguments and raises TypeError for    *)
(* any other number of arguments; nothing else is bound.                   *)
C22_AccessorsBound ==
    retrieve.state = "bound" =>
        /\ retrieve.bound =
               {<<SubSeq(name, 4, Len(name)),
                  CHOOSE p \in Working(retrieve.md, name) :
                      \A r \in Working(retrieve.md, name) : p >= r>> :
                    name \in {g \in Getters : Working(retrieve.md, g) # {}}}
        /\ (retrieve.call = "call" /\ retrieve.raised # "AttributeError") =>
               \E pair \in retrieve.bound :
                   /\ pair[1] = retrieve.attr
                   /\ (retrieve.raised = "TypeError") = (retrieve.nargs # pair[2])

(* A getter that works with one and with two arguments is bound with two,  *)
(* and its accessor refused one argument.                                  *)
C22_Witness ==
    /\ retrieve.state = "bound"
    /\ Working(retrieve.md, getA) = {1, 2}
    /\ retrieve.md.fns[getA][0] = "None"
    /\ <<<<"A">>, 2>> \in retrieve.bound
    /\ retrieve.call = "call"
    /\ retrieve.attr = <<"A">>
    /\ retrieve.nargs = 1
    /\ retrieve.raised = "TypeError"

---------------------------------------------------------------------------
(* Claims about the channel selection and get_frame. *)

(* C23: after an accepted assignment of reader.channel on a series that is *)
(* not RGB the selection holds at least one channel, so that get_frame(t)  *)
(* for a valid t reads at least one plane and returns a frame instead of   *)
(* failing on an empty list of planes.                                     *)
C23_SelectionNeverEmpty ==
    /\ (opened /\ ~self.isRGB /\ call = "channel" /\ raised = "none") =>
           Len(self.channel.items) >= 1
    /\ (opened /\ ~self.isRGB /\ call = "get_frame") =>
           /\ Len(reads) >= 1
           /\ raised = "none"
           /\ frame # NoFrame

=============================================================================
